---------------------------- MODULE Spec2Model ----------------------------
(***************************************************************************)
(* Model of pylibrenms/client.py: the Librenms client, its four verb       *)
(* primitives (_get, _patch, _post, _delete) and its public endpoint       *)
(* methods.  One action per public method; an action is one whole call,    *)
(* from argument binding to the returned value or the raised exception.    *)
(* The transport collaborator (the requests library) is an input of each   *)
(* call: it either answers with a response or signals a network fault.     *)
(***************************************************************************)
EXTENDS Integers, Sequences, FiniteSets, TLC

VARIABLES ctor, url, headers, verify, call, handed, requests, replies, outcome

vars == <<ctor, url, headers, verify, call, handed, requests, replies, outcome>>

(***************************************************************************)
(* Bounds of the model.                                                    *)
(***************************************************************************)
\* longest list value passed as an argument
MaxListLen == 2
\* integers passed as arguments are 0..MaxInt
MaxInt == 1
\* add_device: required fields of a variant left out of the keyword arguments
MaxMissing == 1
\* add_device: keyword arguments supplied besides a variant's required fields
MaxExtraKwargs == 1

(***************************************************************************)
(* Python values.  Every value is a record of the same shape: t is the     *)
(* type tag, s the text of a str, n the number of an int or bool, l the    *)
(* elements of a list.                                                     *)
(***************************************************************************)
PyNone == [t |-> "none", s |-> "", n |-> 0, l |-> <<>>]
PyStr(x) == [t |-> "str", s |-> x, n |-> 0, l |-> <<>>]
PyInt(x) == [t |-> "int", s |-> "", n |-> x, l |-> <<>>]
PyBool(b) == [t |-> "bool", s |-> "", n |-> IF b THEN 1 ELSE 0, l |-> <<>>]
PyList(x) == [t |-> "list", s |-> "", n |-> 0, l |-> x]

\* Python truthiness (`if x:`)
Truthy(v) ==
    CASE v.t = "none" -> FALSE
      [] v.t = "str"  -> v.s # ""
      [] v.t = "int"  -> v.n # 0
      [] v.t = "bool" -> v.n = 1
      [] v.t = "list" -> v.l # <<>>

Digits == <<"0", "1", "2", "3", "4", "5", "6", "7", "8", "9">>

RECURSIVE IntStr(_)
\* str() of a non-negative int
IntStr(n) == IF n < 10 THEN Digits[n + 1]
             ELSE IntStr(n \div 10) \o Digits[(n % 10) + 1]

\* repr() of a list element
Repr(e) ==
    CASE e.t = "none" -> "None"
      [] e.t = "str"  -> "'" \o e.s \o "'"
      [] e.t = "int"  -> IntStr(e.n)
      [] e.t = "bool" -> IF e.n = 1 THEN "True" ELSE "False"
      [] e.t = "list" -> "[...]"

RECURSIVE ReprSeq(_)
ReprSeq(l) == IF l = <<>> THEN ""
              ELSE IF Len(l) = 1 THEN Repr(l[1])
              ELSE Repr(l[1]) \o ", " \o ReprSeq(Tail(l))

\* str(v), as the endpoint methods use it to build routes
str(v) ==
    CASE v.t = "none" -> "None"
      [] v.t = "str"  -> v.s
      [] v.t = "int"  -> IntStr(v.n)
      [] v.t = "bool" -> IF v.n = 1 THEN "True" ELSE "False"
      [] v.t = "list" -> "[" \o ReprSeq(v.l) \o "]"

\* sep.join(l) needs every element to be a str; otherwise it raises TypeError
Joinable(l) == \A i \in 1..Len(l) : l[i].t = "str"

RECURSIVE JoinStrs(_, _)
JoinStrs(sep, l) == IF l = <<>> THEN ""
                    ELSE IF Len(l) = 1 THEN l[1].s
                    ELSE l[1].s \o sep \o JoinStrs(sep, Tail(l))

\* ','.join(map(str, l)) of add_parents_to_host
RECURSIVE MapStr(_)
MapStr(l) == IF l = <<>> THEN <<>> ELSE <<PyStr(str(l[1]))>> \o MapStr(Tail(l))

(***************************************************************************)
(* Argument universes.                                                     *)
(***************************************************************************)
Strs == {"a", "b"}
Scalars == {PyStr(x) : x \in Strs} \cup {PyInt(i) : i \in 0..MaxInt}

RECURSIVE SeqsUpTo(_, _)
SeqsUpTo(S, n) == IF n = 0 THEN {<<>>}
                  ELSE LET P == SeqsUpTo(S, n - 1)
                       IN  P \cup {Append(q, e) : q \in {p \in P : Len(p) = n - 1}, e \in S}

Lists == {PyList(q) : q \in SeqsUpTo(Scalars, MaxListLen)}
\* any value a caller may pass for a parameter
Values == {PyNone} \cup Scalars \cup Lists
\* the values used where a call has several free parameters
FewValues == {PyNone, PyStr("a"), PyInt(0), PyList(<<PyStr("a"), PyStr("b")>>),
              PyList(<<PyInt(1)>>)}
\* hostnames, ids, names interpolated into routes
Idents == {PyStr("h1"), PyInt(42)}

(***************************************************************************)
(* Ordered mappings (dict): a sequence of [k, v] entries, keys distinct.   *)
(***************************************************************************)
Entry(k, v) == [k |-> k, v |-> v]
Keys(d) == {d[i].k : i \in 1..Len(d)}
KeySeq(d) == [i \in 1..Len(d) |-> d[i].k]
HasKey(d, k) == \E i \in 1..Len(d) : d[i].k = k
Lookup(d, k) == d[CHOOSE i \in 1..Len(d) : d[i].k = k].v
\* d[k] = v : overwrite in place, or append a new key at the end
SetItem(d, k, v) ==
    IF HasKey(d, k) THEN [i \in 1..Len(d) |-> IF d[i].k = k THEN Entry(k, v) ELSE d[i]]
    ELSE Append(d, Entry(k, v))

(***************************************************************************)
(* The transport collaborator: what requests.get/post/patch/delete does    *)
(* with a request it is given: it answers, or it signals a network fault.  *)
(***************************************************************************)
Faults == {"ConnectionError", "Timeout"}
Responses == {[status_code |-> 200, text |-> "[]"],
              [status_code |-> 500, text |-> "\"error\""]}
Transports == {[fault |-> "", resp |-> r] : r \in Responses} \cup
              {[fault |-> f, resp |-> [status_code |-> 0, text |-> ""]] : f \in Faults}

\* response.json(): the decoded body (the status code is not looked at)
json(resp) == IF resp.text = "[]" THEN PyList(<<>>)
              ELSE PyStr(SubSeq(resp.text, 2, Len(resp.text) - 1))

\* an argument that may be left out (params=None, data=None)
Omitted == [given |-> FALSE, d |-> <<>>]
Given(d) == [given |-> TRUE, d |-> d]

(***************************************************************************)
(* Outcomes of a call.                                                     *)
(***************************************************************************)
Return(v) == [kind |-> "return", val |-> v, exc |-> "", site |-> "", msg |-> ""]
Raise(e, site, msg) == [kind |-> "raise", val |-> PyNone, exc |-> e, site |-> site, msg |-> msg]

\* the result of running a method body: what was handed to a verb primitive,
\* the requests the transport saw, what it did with each, and how the call
\* ended
Result(h, rq, rp, o) == [handed |-> h, requests |-> rq, replies |-> rp, outcome |-> o]
NoPrimitive(o) == Result(<<>>, <<>>, <<>>, o)

(***************************************************************************)
(* The four verb primitives.  tr is what the transport does with the       *)
(* request.                                                                *)
(***************************************************************************)
Handed(verb, route, arg) == <<[verb |-> verb, route |-> route, arg |-> arg]>>
Request(verb, endpoint, payload) ==
    [verb |-> verb, url |-> endpoint, headers |-> headers, payload |-> payload,
     verify |-> verify]

RECURSIVE JoinLists(_, _)
\* the loop of _get over params.items(): a list value is replaced, under
\* its own key, by ','.join(value); the join raises on a non-str element
JoinLists(d, i) ==
    IF i > Len(d) THEN [ok |-> TRUE, d |-> d]
    ELSE IF d[i].v.t = "list"
         THEN IF Joinable(d[i].v.l)
              THEN JoinLists(SetItem(d, d[i].k, PyStr(JoinStrs(",", d[i].v.l))), i + 1)
              ELSE [ok |-> FALSE, d |-> d]
         ELSE JoinLists(d, i + 1)

_get(route, params, tr) ==
    LET endpoint == url \o route
        norm == IF params.given THEN JoinLists(params.d, 1) ELSE [ok |-> TRUE, d |-> <<>>]
        rq == Request("GET", endpoint, norm.d)
    IN  IF ~norm.ok
        THEN Result(Handed("GET", route, params), <<>>, <<>>,
                    Raise("TypeError", "_get:34", "sequence item: expected str instance"))
        ELSE IF tr.fault # ""
        THEN Result(Handed("GET", route, params), <<rq>>, <<tr>>,
                    Raise("Exception", "_get:41", "Error occurred, " \o tr.fault))
        ELSE Result(Handed("GET", route, params), <<rq>>, <<tr>>, Return(json(tr.resp)))

_patch(route, data, tr) ==
    LET endpoint == url \o route
        body == IF data.given THEN data.d ELSE <<>>
        rq == Request("PATCH", endpoint, body)
    IN  IF tr.fault # ""
        THEN Result(Handed("PATCH", route, data), <<rq>>, <<tr>>,
                    Raise("Exception", "_patch:54", "Error occurred, " \o tr.fault))
        ELSE Result(Handed("PATCH", route, data), <<rq>>, <<tr>>, Return(json(tr.resp)))

\* _post with a retry: a faulted request is sent a second time
_post_retry(route, data, tr) ==
    LET endpoint == url \o route
        body == IF data.given THEN data.d ELSE <<>>
        rq == Request("POST", endpoint, body)
    IN  IF tr.fault # ""
        THEN Result(Handed("POST", route, data), <<rq, rq>>, <<tr, tr>>,
                    Raise("Exception", "_post:67", "Error occurred, " \o tr.fault))
        ELSE Result(Handed("POST", route, data), <<rq>>, <<tr>>, Return(json(tr.resp)))

_post(route, data, tr) ==
    LET endpoint == url \o route
        body == IF data.given THEN data.d ELSE <<>>
        rq == Request("POST", endpoint, body)
    IN  IF tr.fault # ""
        THEN Result(Handed("POST", route, data), <<rq>>, <<tr>>,
                    Raise("Exception", "_post:67", "Error occurred, " \o tr.fault))
        ELSE Result(Handed("POST", route, data), <<rq>>, <<tr>>, Return(json(tr.resp)))

_delete(route, data, tr) ==
    LET endpoint == url \o route
        body == IF data.given THEN data.d ELSE <<>>
        rq == Request("DELETE", endpoint, body)
    IN  IF tr.fault # ""
        THEN Result(Handed("DELETE", route, data), <<rq>>, <<tr>>,
                    Raise("Exception", "_delete:80", "Error occurred, " \o tr.fault))
        ELSE Result(Handed("DELETE", route, data), <<rq>>, <<tr>>, Return(json(tr.resp)))

(***************************************************************************)
(* Construction.                                                           *)
(***************************************************************************)
BaseUrls == {"http://nms", "http://nms/"}
ApiKeys == {"k1", "k2"}

endswith(s, c) == Len(s) > 0 /\ SubSeq(s, Len(s), Len(s)) = c

\* __init__ without the test for a trailing slash
Construct_asis(base_url, api_key, verify_ssl) ==
    /\ ctor = [base_url |-> base_url, api_key |-> api_key, verify_ssl |-> verify_ssl]
    /\ url = base_url \o "api/v0/"
    /\ headers = <<Entry("X-Auth-Token", api_key)>>
    /\ verify = verify_ssl

\* Librenms.__init__
Construct(base_url, api_key, verify_ssl) ==
    LET b == IF ~endswith(base_url, "/") THEN base_url \o "/" ELSE base_url
    IN  /\ ctor = [base_url |-> base_url, api_key |-> api_key, verify_ssl |-> verify_ssl]
        /\ url = b \o "api/v0/"
        /\ headers = <<Entry("X-Auth-Token", api_key)>>
        /\ verify = verify_ssl

NoCall == [op |-> "", args |-> [none |-> TRUE]]

Init ==
    /\ \E base_url \in BaseUrls, api_key \in ApiKeys, verify_ssl \in BOOLEAN :
            Construct(base_url, api_key, verify_ssl)
    /\ call = NoCall
    /\ handed = <<>>
    /\ requests = <<>>
    /\ replies = <<>>
    /\ outcome = Return(PyNone)

\* The caller is synchronous and single-threaded: a call starts when no
\* call is under way.
Idle == call.op = ""

\* A completed call of a public method leaves its trace
\* in call, handed, requests and outcome; the client's fields are only read.
Done(op, args, r) ==
    /\ call' = [op |-> op, args |-> args]
    /\ handed' = r.handed
    /\ requests' = r.requests
    /\ replies' = r.replies
    /\ outcome' = r.outcome
    /\ UNCHANGED <<ctor, url, headers, verify>>

(***************************************************************************)
(* Endpoint methods: ports.                                                *)
(***************************************************************************)
get_all_ports(columns, tr) ==
    _get("ports", Given(<<Entry("columns", columns)>>), tr)

PortFields == {"ifAlias", "ifDescr", "ifName", "all"}

\* search_ports without its membership check
search_ports_unchecked(field, search_string, columns, tr) ==
    IF field = "all"
    THEN NoPrimitive(Raise("TypeError", "search_ports:105",
                           "_get() got an unexpected keyword argument 'columns'"))
    ELSE _get("ports/search/" \o field \o "/" \o str(search_string),
              Given(<<Entry("columns", columns)>>), tr)

search_ports(field, search_string, columns, tr) ==
    IF field \notin PortFields
    THEN NoPrimitive(Raise("Exception", "search_ports:103", "Error occurred!"))
    ELSE IF field = "all"
    \* _get(route, columns=columns): _get has no parameter named columns,
    \* so binding the call raises before _get runs
    THEN NoPrimitive(Raise("TypeError", "search_ports:105",
                           "_get() got an unexpected keyword argument 'columns'"))
    ELSE _get("ports/search/" \o field \o "/" \o str(search_string),
              Given(<<Entry("columns", columns)>>), tr)

ports_with_associated_mac(mac, search_filter, tr) ==
    _get("ports/mac/" \o str(mac), Given(<<Entry("filter", search_filter)>>), tr)

get_port_info(port_id, tr) == _get("ports/" \o str(port_id), Omitted, tr)

get_port_ip_info(port_id, tr) == _get("ports/" \o str(port_id) \o "/ip", Omitted, tr)

GetAllPorts ==
    /\ Idle
    /\ \E columns \in Values, tr \in Transports :
        Done("get_all_ports", [columns |-> columns], get_all_ports(columns, tr))

SearchPorts ==
    /\ Idle
    /\ \E field \in PortFields \cup {"bogus"}, search_string \in Scalars,
       columns \in Values, tr \in Transports :
        Done("search_ports",
             [field |-> field, search_string |-> search_string, columns |-> columns],
             search_ports(field, search_string, columns, tr))

PortsWithAssociatedMac ==
    /\ Idle
    /\ \E mac \in Idents, search_filter \in FewValues, tr \in Transports :
        Done("ports_with_associated_mac", [mac |-> mac, search_filter |-> search_filter],
             ports_with_associated_mac(mac, search_filter, tr))

GetPortInfo ==
    /\ Idle
    /\ \E port_id \in Idents, tr \in Transports :
        Done("get_port_info", [port_id |-> port_id], get_port_info(port_id, tr))

GetPortIpInfo ==
    /\ Idle
    /\ \E port_id \in Idents, tr \in Transports :
        Done("get_port_ip_info", [port_id |-> port_id], get_port_ip_info(port_id, tr))

(***************************************************************************)
(* Endpoint methods: devices.                                              *)
(***************************************************************************)
del_device(hostname, tr) == _delete("devices/" \o str(hostname), Omitted, tr)

get_device(hostname, tr) == _get("devices/" \o str(hostname), Omitted, tr)

discover_device(hostname, tr) ==
    _get("devices/" \o str(hostname) \o "/discover", Omitted, tr)

availability(hostname, tr) ==
    _get("devices/" \o str(hostname) \o "/availability", Omitted, tr)

outages(hostname, tr) == _get("devices/" \o str(hostname) \o "/outages", Omitted, tr)

ComponentParams == <<"type", "id", "label", "status", "disabled", "ignore">>

\* f maps each name of ComponentParams to the matching component_* argument
get_components(hostname, f, tr) ==
    _get("devices/" \o str(hostname) \o "/components",
         Given([i \in 1..Len(ComponentParams) |->
                    Entry(ComponentParams[i], f[ComponentParams[i]])]), tr)

add_components(hostname, component_type, tr) ==
    _post("devices/" \o str(hostname) \o "/components/" \o str(component_type), Omitted, tr)

\* `def edit_components(self, ): ...` and the other stubs: the body is the
\* Ellipsis expression, so the call returns None and does nothing else
edit_components == NoPrimitive(Return(PyNone))

delete_components == NoPrimitive(Return(PyNone))

delete_parents_from_host == NoPrimitive(Return(PyNone))

DelDevice ==
    /\ Idle
    /\ \E hostname \in Idents, tr \in Transports :
        Done("del_device", [hostname |-> hostname], del_device(hostname, tr))

GetDevice ==
    /\ Idle
    /\ \E hostname \in Idents, tr \in Transports :
        Done("get_device", [hostname |-> hostname], get_device(hostname, tr))

DiscoverDevice ==
    /\ Idle
    /\ \E hostname \in Idents, tr \in Transports :
        Done("discover_device", [hostname |-> hostname], discover_device(hostname, tr))

Availability ==
    /\ Idle
    /\ \E hostname \in Idents, tr \in Transports :
        Done("availability", [hostname |-> hostname], availability(hostname, tr))

Outages ==
    /\ Idle
    /\ \E hostname \in Idents, tr \in Transports :
        Done("outages", [hostname |-> hostname], outages(hostname, tr))

\* the arguments named in S get the value v, the others keep their default None
Supplied(names, S, v) == [k \in names |-> IF k \in S THEN v ELSE PyNone]

Range(q) == {q[i] : i \in 1..Len(q)}

GetComponents ==
    /\ Idle
    /\ \E hostname \in Idents, S \in SUBSET Range(ComponentParams), v \in FewValues,
       tr \in Transports :
        LET f == Supplied(Range(ComponentParams), S, v)
        IN  Done("get_components", [hostname |-> hostname, component |-> f],
                 get_components(hostname, f, tr))

AddComponents ==
    /\ Idle
    /\ \E hostname \in Idents, component_type \in Scalars, tr \in Transports :
        Done("add_components", [hostname |-> hostname, component_type |-> component_type],
             add_components(hostname, component_type, tr))

EditComponents ==
    /\ Idle
    /\ Done("edit_components", [none |-> TRUE], edit_components)

DeleteComponents ==
    /\ Idle
    /\ Done("delete_components", [none |-> TRUE], delete_components)

DeleteParentsFromHost ==
    /\ Idle
    /\ Done("delete_parents_from_host", [none |-> TRUE], delete_parents_from_host)


(***************************************************************************)
(* add_device.                                                             *)
(***************************************************************************)
DeviceTypes == {"icmp", "snmpv1", "snmpv2c", "snmpv3"}

\* required_params with cryptoalgo left out of the snmpv3 list
required_params_short(device_type) ==
    CASE device_type = "icmp"    -> <<>>
      [] device_type = "snmpv1"  -> <<"community">>
      [] device_type = "snmpv2c" -> <<"community">>
      [] device_type = "snmpv3"  -> <<"authlevel", "authname", "authpass", "authalgo",
                                      "cryptopass">>

required_params(device_type) ==
    CASE device_type = "icmp"    -> <<>>
      [] device_type = "snmpv1"  -> <<"community">>
      [] device_type = "snmpv2c" -> <<"community">>
      [] device_type = "snmpv3"  -> <<"authlevel", "authname", "authpass", "authalgo",
                                      "cryptopass", "cryptoalgo">>

optional_params(device_type) ==
    CASE device_type = "icmp"    -> <<"os", "sys_name", "hardware", "force_add", "location",
                                      "poller_group", "display">>
      [] device_type = "snmpv1"  -> <<"port", "transport", "port_association_mode",
                                      "location", "force_add", "display">>
      [] device_type = "snmpv2c" -> <<"port", "transport", "port_association_mode",
                                      "location", "force_add", "display">>
      [] device_type = "snmpv3"  -> <<"port", "transport", "port_association_mode",
                                      "location", "force_add", "display">>

RECURSIVE CopyRequired(_, _, _, _)
\* the loop over required_params[device_type]: stops at the first parameter
\* that kwargs lacks, otherwise copies it into data
CopyRequired(req, i, kwargs, data) ==
    IF i > Len(req) THEN [ok |-> TRUE, param |-> "", data |-> data]
    ELSE IF req[i] \notin DOMAIN kwargs
         THEN [ok |-> FALSE, param |-> req[i], data |-> data]
         ELSE CopyRequired(req, i + 1, kwargs, SetItem(data, req[i], kwargs[req[i]]))

RECURSIVE CopyOptional(_, _, _, _)
\* the loop over optional_params[device_type]: copies what kwargs holds
CopyOptional(opt, i, kwargs, data) ==
    IF i > Len(opt) THEN data
    ELSE IF opt[i] \in DOMAIN kwargs
         THEN CopyOptional(opt, i + 1, kwargs, SetItem(data, opt[i], kwargs[opt[i]]))
         ELSE CopyOptional(opt, i + 1, kwargs, data)

\* the marker chain with every SNMP variant tagged v2c
SnmpMarker_v2c(device_type, data) ==
    IF device_type = "icmp" THEN SetItem(data, "snmp_disable", PyStr("true"))
    ELSE SetItem(data, "snmpver", PyStr("v2c"))

\* the if/elif chain that sets snmp_disable or snmpver
SnmpMarker(device_type, data) ==
    IF device_type = "icmp" THEN SetItem(data, "snmp_disable", PyStr("true"))
    ELSE IF device_type = "snmpv1" THEN SetItem(data, "snmpver", PyStr("v1"))
    ELSE IF device_type = "snmpv2c" THEN SetItem(data, "snmpver", PyStr("v2c"))
    ELSE SetItem(data, "snmpver", PyStr("v3"))

add_device(hostname, device_type, kwargs, tr) ==
    LET data0 == <<Entry("hostname", hostname)>>
    IN  IF device_type \notin DeviceTypes
        THEN NoPrimitive(Raise("Exception", "add_device:282",
                               "Unknown device type " \o device_type \o "."))
        ELSE LET r == CopyRequired(required_params(device_type), 1, kwargs, data0)
             IN  IF ~r.ok
                 THEN NoPrimitive(Raise("Exception", "add_device:285",
                                        "Missing parameter " \o r.param
                                        \o " for device type " \o device_type \o "."))
                 ELSE _post("devices",
                            Given(SnmpMarker(device_type,
                                    CopyOptional(optional_params(device_type), 1,
                                                 kwargs, r.data))),
                            tr)

\* keyword names a caller may pass: every name of the two tables, the
\* documented sysName and the derived keys
KwNames ==
    UNION {Range(required_params(d)) \cup Range(optional_params(d)) : d \in DeviceTypes}
    \cup {"sysName", "snmpver", "snmp_disable"}

SubsetsUpTo(S, n) == {T \in SUBSET S : Cardinality(T) <= n}

\* keyword-name sets: a variant's required fields, up to MaxMissing of them
\* left out, plus up to MaxExtraKwargs further names, with or without a name
\* that no table knows
KwargSets ==
    {(Range(required_params(d)) \ M) \cup O \cup U :
        d \in DeviceTypes,
        M \in SubsetsUpTo(Range(required_params("snmpv3")) \cup {"community"}, MaxMissing),
        O \in SubsetsUpTo(KwNames, MaxExtraKwargs),
        U \in SUBSET {"extra"}}

\* the value the caller passes under keyword k
KwValue(k) == PyStr("<" \o k \o ">")

AddDevice ==
    /\ Idle
    /\ \E hostname \in Idents, device_type \in DeviceTypes \cup {"bogus"}, K \in KwargSets,
       tr \in Transports :
        LET kwargs == [k \in K |-> KwValue(k)]
        IN  Done("add_device",
                 [hostname |-> hostname, device_type |-> device_type, kwargs |-> kwargs],
                 add_device(hostname, device_type, kwargs, tr))

(***************************************************************************)
(* Endpoint methods: devices, continued.                                   *)
(***************************************************************************)
list_oxidized(hostname, tr) ==
    LET h == IF ~Truthy(hostname) THEN PyStr("") ELSE hostname
    IN  _get("oxidized/" \o str(h), Omitted, tr)

rename_device(hostname, new_hostname, tr) ==
    _patch("devices/" \o str(hostname) \o "/rename/" \o str(new_hostname), Omitted, tr)

get_port_stack(hostname, valid_mappings, tr) ==
    IF Truthy(valid_mappings)
    THEN _get("devices/" \o str(hostname) \o "/port_stack",
              Given(<<Entry("valid_mappings", PyStr(""))>>), tr)
    ELSE _get("devices/" \o str(hostname) \o "/port_stack", Omitted, tr)

get_device_groups(hostname, tr) ==
    _get("devices/" \o str(hostname) \o "/groups", Omitted, tr)

add_parents_to_host(hostname, parent_ids, tr) ==
    LET p == IF parent_ids.t = "list"
             THEN PyStr(JoinStrs(",", MapStr(parent_ids.l)))
             ELSE parent_ids
    IN  _post("devices/" \o str(hostname) \o "/parents",
              Given(<<Entry("parent_ids", p)>>), tr)

get_inventory(hostname, ent_physical_class, ent_physical_contained_in, tr) ==
    _get("inventory/" \o str(hostname),
         Given(<<Entry("entPhysicalClass", ent_physical_class),
                 Entry("entPhysicalContainedIn", ent_physical_contained_in)>>), tr)

get_inventory_for_device(hostname, tr) ==
    _get("inventory/" \o str(hostname) \o "/all", Omitted, tr)

get_graphs(hostname, tr) == _get("devices/" \o str(hostname) \o "/graphs", Omitted, tr)

system(tr) == _get("system", Omitted, tr)

list_available_health_graphs(hostname, health_type, sensor_id, tr) ==
    LET r0 == "devices/" \o str(hostname) \o "/health/"
        r1 == IF Truthy(health_type) THEN r0 \o str(health_type) \o "/" ELSE r0
        r2 == IF Truthy(sensor_id) THEN r1 \o str(sensor_id) ELSE r1
    IN  _get(r2, Omitted, tr)

ListOxidized ==
    /\ Idle
    /\ \E hostname \in Idents \cup {PyNone, PyStr("")}, tr \in Transports :
        Done("list_oxidized", [hostname |-> hostname], list_oxidized(hostname, tr))

RenameDevice ==
    /\ Idle
    /\ \E hostname \in Idents, new_hostname \in Idents, tr \in Transports :
        Done("rename_device", [hostname |-> hostname, new_hostname |-> new_hostname],
             rename_device(hostname, new_hostname, tr))

GetPortStack ==
    /\ Idle
    /\ \E hostname \in Idents, valid_mappings \in {PyBool(FALSE), PyBool(TRUE)},
       tr \in Transports :
        Done("get_port_stack", [hostname |-> hostname, valid_mappings |-> valid_mappings],
             get_port_stack(hostname, valid_mappings, tr))

GetDeviceGroups ==
    /\ Idle
    /\ \E hostname \in Idents, tr \in Transports :
        Done("get_device_groups", [hostname |-> hostname], get_device_groups(hostname, tr))

AddParentsToHost ==
    /\ Idle
    /\ \E hostname \in Idents, parent_ids \in Scalars \cup Lists, tr \in Transports :
        Done("add_parents_to_host", [hostname |-> hostname, parent_ids |-> parent_ids],
             add_parents_to_host(hostname, parent_ids, tr))

GetInventory ==
    /\ Idle
    /\ \E hostname \in Idents, c \in FewValues, i \in FewValues, tr \in Transports :
        Done("get_inventory",
             [hostname |-> hostname, ent_physical_class |-> c,
              ent_physical_contained_in |-> i],
             get_inventory(hostname, c, i, tr))

GetInventoryForDevice ==
    /\ Idle
    /\ \E hostname \in Idents, tr \in Transports :
        Done("get_inventory_for_device", [hostname |-> hostname],
             get_inventory_for_device(hostname, tr))

GetGraphs ==
    /\ Idle
    /\ \E hostname \in Idents, tr \in Transports :
        Done("get_graphs", [hostname |-> hostname], get_graphs(hostname, tr))

System ==
    /\ Idle
    /\ \E tr \in Transports : Done("system", [none |-> TRUE], system(tr))

ListAvailableHealthGraphs ==
    /\ Idle
    /\ \E hostname \in Idents, health_type \in {PyNone, PyStr("temperature")},
       sensor_id \in {PyNone, PyInt(0), PyInt(7)}, tr \in Transports :
        Done("list_available_health_graphs",
             [hostname |-> hostname, health_type |-> health_type, sensor_id |-> sensor_id],
             list_available_health_graphs(hostname, health_type, sensor_id, tr))


(***************************************************************************)
(* Endpoint methods: locations.                                            *)
(***************************************************************************)
list_locations(tr) == _get("resources/locations", Omitted, tr)

\* add_location testing its coordinates with `is not None`, as edit_location does
add_location_notnone(location_name, latitude, longitude, fixed_coordinates, tr) ==
    _post("locations",
          Given(<<Entry("location", location_name),
                  Entry("lat", IF latitude.t # "none" THEN latitude ELSE PyStr("None")),
                  Entry("lng", IF longitude.t # "none" THEN longitude ELSE PyStr("None")),
                  Entry("fixed_coordinates", fixed_coordinates)>>), tr)

add_location(location_name, latitude, longitude, fixed_coordinates, tr) ==
    _post("locations",
          Given(<<Entry("location", location_name),
                  Entry("lat", IF Truthy(latitude) THEN latitude ELSE PyStr("None")),
                  Entry("lng", IF Truthy(longitude) THEN longitude ELSE PyStr("None")),
                  Entry("fixed_coordinates", fixed_coordinates)>>), tr)

delete_location(location_name, tr) ==
    _delete("locations/" \o str(location_name), Omitted, tr)

edit_location(location_name, latitude, longitude, tr) ==
    LET d1 == IF latitude.t # "none" THEN SetItem(<<>>, "lat", latitude) ELSE <<>>
        d2 == IF longitude.t # "none" THEN SetItem(d1, "lng", longitude) ELSE d1
    IN  _patch("locations/" \o str(location_name), Given(d2), tr)

get_location(location_name, tr) == _get("location/" \o str(location_name), Omitted, tr)

\* None, numbers (0 among them) and coordinates given as text
Coordinates == {PyNone, PyStr(""), PyStr("40.7")} \cup {PyInt(i) : i \in 0..MaxInt}

ListLocations ==
    /\ Idle
    /\ \E tr \in Transports : Done("list_locations", [none |-> TRUE], list_locations(tr))

AddLocation ==
    /\ Idle
    /\ \E location_name \in Idents, latitude \in Coordinates, longitude \in Coordinates,
       fixed_coordinates \in {PyNone, PyInt(0), PyInt(1)}, tr \in Transports :
        Done("add_location",
             [location_name |-> location_name, latitude |-> latitude,
              longitude |-> longitude, fixed_coordinates |-> fixed_coordinates],
             add_location(location_name, latitude, longitude, fixed_coordinates, tr))

DeleteLocation ==
    /\ Idle
    /\ \E location_name \in Idents, tr \in Transports :
        Done("delete_location", [location_name |-> location_name],
             delete_location(location_name, tr))

EditLocation ==
    /\ Idle
    /\ \E location_name \in Idents, latitude \in Coordinates, longitude \in Coordinates,
       tr \in Transports :
        Done("edit_location",
             [location_name |-> location_name, latitude |-> latitude,
              longitude |-> longitude],
             edit_location(location_name, latitude, longitude, tr))

GetLocation ==
    /\ Idle
    /\ \E location_name \in Idents, tr \in Transports :
        Done("get_location", [location_name |-> location_name],
             get_location(location_name, tr))

(***************************************************************************)
(* Endpoint methods: device groups.                                        *)
(***************************************************************************)
get_devicegroups(tr) == _get("devicegroups/", Omitted, tr)

\* add_devicegroup checking only that the variant's own field is set
add_devicegroup_lax(group_name, group_type, description, rules, devices, tr) ==
    LET data == <<Entry("name", group_name), Entry("description", description),
                  Entry("type", PyStr(group_type))>>
    IN  IF group_type = "static"
        THEN IF devices.t = "none"
             THEN NoPrimitive(Raise("Exception", "add_devicegroup:522",
                     "Devices must be set, rules cannot be set for STATIC group type."))
             ELSE _post("devicegroups", Given(SetItem(data, "devices", devices)), tr)
        ELSE IF group_type = "dynamic"
        THEN IF rules.t = "none"
             THEN NoPrimitive(Raise("Exception", "add_devicegroup:526",
                     "rules must be set, Devices cannot be set for DYNAMCI group type."))
             ELSE _post("devicegroups", Given(SetItem(data, "rules", rules)), tr)
        ELSE NoPrimitive(Raise("Exception", "add_devicegroup:529",
                               "Unknown group type " \o group_type))

add_devicegroup(group_name, group_type, description, rules, devices, tr) ==
    LET data == <<Entry("name", group_name), Entry("description", description),
                  Entry("type", PyStr(group_type))>>
    IN  IF group_type = "static"
        THEN IF devices.t = "none" \/ rules.t # "none"
             THEN NoPrimitive(Raise("Exception", "add_devicegroup:522",
                     "Devices must be set, rules cannot be set for STATIC group type."))
             ELSE _post("devicegroups", Given(SetItem(data, "devices", devices)), tr)
        ELSE IF group_type = "dynamic"
        THEN IF rules.t = "none" \/ devices.t # "none"
             THEN NoPrimitive(Raise("Exception", "add_devicegroup:526",
                     "rules must be set, Devices cannot be set for DYNAMCI group type."))
             ELSE _post("devicegroups", Given(SetItem(data, "rules", rules)), tr)
        ELSE NoPrimitive(Raise("Exception", "add_devicegroup:529",
                               "Unknown group type " \o group_type))

get_devices_by_group(group_name, full, tr) ==
    LET params == IF Truthy(full) THEN SetItem(<<>>, "full", full) ELSE <<>>
    IN  _get("devicegroups/" \o str(group_name), Given(params), tr)

maintenance_devicegroup(group_name, duration, title, notes, start, tr) ==
    _post("devicegroups/" \o str(group_name) \o "/maintenance",
          Given(<<Entry("title", title), Entry("notes", notes), Entry("start", start),
                  Entry("duration", duration)>>), tr)

GetDevicegroups ==
    /\ Idle
    /\ \E tr \in Transports : Done("get_devicegroups", [none |-> TRUE], get_devicegroups(tr))

AddDevicegroup ==
    /\ Idle
    /\ \E group_name \in {PyStr("g")}, group_type \in {"static", "dynamic", "bogus"},
       description \in {PyNone, PyStr("d")},
       rules \in {PyNone, PyStr("r"), PyStr("")},
       devices \in {PyNone, PyList(<<>>), PyList(<<PyStr("d1")>>), PyList(<<PyInt(1), PyInt(0)>>)},
       tr \in Transports :
        Done("add_devicegroup",
             [group_name |-> group_name, group_type |-> group_type,
              description |-> description, rules |-> rules, devices |-> devices],
             add_devicegroup(group_name, group_type, description, rules, devices, tr))

GetDevicesByGroup ==
    /\ Idle
    /\ \E group_name \in Idents, full \in {PyNone, PyBool(FALSE), PyBool(TRUE)},
       tr \in Transports :
        Done("get_devices_by_group", [group_name |-> group_name, full |-> full],
             get_devices_by_group(group_name, full, tr))

MaintenanceDevicegroup ==
    /\ Idle
    /\ \E group_name \in Idents, duration \in {PyStr("02:00")},
       title \in {PyNone, PyStr("t")}, notes \in {PyNone, PyStr("n")},
       start \in {PyNone, PyStr("2022-08-01 22:45:00")}, tr \in Transports :
        Done("maintenance_devicegroup",
             [group_name |-> group_name, duration |-> duration, title |-> title,
              notes |-> notes, start |-> start],
             maintenance_devicegroup(group_name, duration, title, notes, start, tr))

(***************************************************************************)
(* Endpoint methods: BGP.                                                  *)
(***************************************************************************)
BgpParams == <<"hostname", "asn", "remote_asn", "remote_address", "local_address",
               "bgp_descr", "bgp_state", "bgp_adminstate", "bgp_family">>

\* f maps each name of BgpParams to the argument of that name
list_bgp(f, tr) ==
    _get("bgp", Given([i \in 1..Len(BgpParams) |-> Entry(BgpParams[i], f[BgpParams[i]])]), tr)

get_bgp(bgp_id, tr) == _get("bgp/" \o str(bgp_id), Omitted, tr)

ListBgp ==
    /\ Idle
    /\ \E S \in SUBSET Range(BgpParams), v \in FewValues, tr \in Transports :
        LET f == Supplied(Range(BgpParams), S, v)
        IN  Done("list_bgp", [params |-> f], list_bgp(f, tr))

GetBgp ==
    /\ Idle
    /\ \E bgp_id \in Idents, tr \in Transports :
        Done("get_bgp", [bgp_id |-> bgp_id], get_bgp(bgp_id, tr))

(***************************************************************************)
(* list_devices.                                                           *)
(***************************************************************************)
FilterTypes == {"all", "active", "ignored", "up", "down"}
SearchTypes == {"os", "mac", "ipv4", "ipv6", "location", "location_id", "hostname",
                "sysName", "display", "device_id", "type"}

\* list_devices with the search-type check testing the filter list again
list_devices_swapped(device_type, query, tr) ==
    IF device_type \in FilterTypes /\ query.t # "none"
    THEN NoPrimitive(Raise("Exception", "list_devices:633",
                           "Device type " \o device_type \o " cannot have a query string."))
    ELSE IF device_type \in FilterTypes /\ query.t = "none"
    THEN NoPrimitive(Raise("Exception", "list_devices:636",
                           "Device type " \o device_type \o " needs a query string."))
    ELSE _get("devices",
              Given(<<Entry("type", PyStr(device_type)), Entry("query", query)>>), tr)

list_devices(device_type, query, tr) ==
    IF device_type \in FilterTypes /\ query.t # "none"
    THEN NoPrimitive(Raise("Exception", "list_devices:633",
                           "Device type " \o device_type \o " cannot have a query string."))
    ELSE IF device_type \in SearchTypes /\ query.t = "none"
    THEN NoPrimitive(Raise("Exception", "list_devices:636",
                           "Device type " \o device_type \o " needs a query string."))
    ELSE _get("devices",
              Given(<<Entry("type", PyStr(device_type)), Entry("query", query)>>), tr)

\* the query is a query string (or a number); None when left out
ListDevices ==
    /\ Idle
    /\ \E device_type \in FilterTypes \cup SearchTypes \cup {"bogus"},
       query \in {PyNone} \cup Scalars, tr \in Transports :
        Done("list_devices", [device_type |-> device_type, query |-> query],
             list_devices(device_type, query, tr))

(***************************************************************************)
(* The caller takes the result (or the exception); the next call may start.*)
(***************************************************************************)
Discard ==
    /\ call.op # ""
    /\ call' = NoCall
    /\ handed' = <<>>
    /\ requests' = <<>>
    /\ replies' = <<>>
    /\ outcome' = Return(PyNone)
    /\ UNCHANGED <<ctor, url, headers, verify>>

Next ==
    \/ GetAllPorts
    \/ SearchPorts
    \/ PortsWithAssociatedMac
    \/ GetPortInfo
    \/ GetPortIpInfo
    \/ DelDevice
    \/ GetDevice
    \/ DiscoverDevice
    \/ Availability
    \/ Outages
    \/ GetComponents
    \/ AddComponents
    \/ EditComponents
    \/ DeleteComponents
    \/ AddDevice
    \/ ListOxidized
    \/ RenameDevice
    \/ GetPortStack
    \/ GetDeviceGroups
    \/ AddParentsToHost
    \/ DeleteParentsFromHost
    \/ GetInventory
    \/ GetInventoryForDevice
    \/ GetGraphs
    \/ System
    \/ ListAvailableHealthGraphs
    \/ ListLocations
    \/ AddLocation
    \/ DeleteLocation
    \/ EditLocation
    \/ GetLocation
    \/ GetDevicegroups
    \/ AddDevicegroup
    \/ GetDevicesByGroup
    \/ MaintenanceDevicegroup
    \/ ListBgp
    \/ GetBgp
    \/ ListDevices
    \/ Discard

Spec == Init /\ [][Next]_vars


(***************************************************************************)
(* Properties.  The sets and tables below are written out from the         *)
(* statements they check, not taken from the model of the code.            *)
(***************************************************************************)
\* the raise statements of the endpoint methods' argument checks
ValidationSites == {"search_ports:103", "add_device:282", "add_device:285",
                    "add_devicegroup:522", "add_devicegroup:526", "add_devicegroup:529",
                    "list_devices:633", "list_devices:636"}
\* the raise statements of the verb primitives' except clauses
TransportSites == {"_get:41", "_patch:54", "_post:67", "_delete:80"}

ValidationFailure ==
    outcome.kind = "raise" /\ outcome.exc = "Exception" /\ outcome.site \in ValidationSites
TransportFailure ==
    outcome.kind = "raise" /\ outcome.exc = "Exception" /\ outcome.site \in TransportSites
NoRequest == requests = <<>> /\ handed = <<>>

EndsWith(s, suffix) ==
    Len(s) >= Len(suffix) /\ SubSeq(s, Len(s) - Len(suffix) + 1, Len(s)) = suffix

\* one request went out, with this verb, to this route
OneRequest(verb, route) ==
    /\ Len(requests) = 1
    /\ requests[1].verb = verb
    /\ requests[1].url = url \o route

StatedVariants == {"icmp", "snmpv1", "snmpv2c", "snmpv3"}
StatedRequired(v) ==
    CASE v = "icmp" -> {}
      [] v \in {"snmpv1", "snmpv2c"} -> {"community"}
      [] v = "snmpv3" -> {"authlevel", "authname", "authpass", "authalgo", "cryptopass",
                          "cryptoalgo"}
StatedMarker(v) ==
    CASE v = "icmp" -> Entry("snmp_disable", PyStr("true"))
      [] v = "snmpv1" -> Entry("snmpver", PyStr("v1"))
      [] v = "snmpv2c" -> Entry("snmpver", PyStr("v2c"))
      [] v = "snmpv3" -> Entry("snmpver", PyStr("v3"))

\* the add_device call passes the stated validation
AddDeviceValid ==
    /\ call.op = "add_device"
    /\ call.args.device_type \in StatedVariants
    /\ StatedRequired(call.args.device_type) \subseteq DOMAIN call.args.kwargs

\* C1: an add_device call whose device_type is none of the four variants, or
\* whose keyword arguments lack a required field of its variant, fails with a
\* validation error and issues no HTTP request.
C1_AddDeviceRejects ==
    (call.op = "add_device" /\ ~AddDeviceValid) => (ValidationFailure /\ NoRequest)

\* C1 witness: an snmpv3 call lacking only cryptoalgo has been rejected
C1_Witness ==
    /\ call.op = "add_device"
    /\ call.args.device_type = "snmpv3"
    /\ StatedRequired("snmpv3") \ DOMAIN call.args.kwargs = {"cryptoalgo"}
    /\ ValidationFailure

\* C2: an add_device call that passes validation issues exactly one POST to
\* route devices; the body's keys are hostname, the variant's required
\* fields, the supplied optional fields of the variant and the variant's one
\* derived marker; every copied field carries the caller's value, and a
\* keyword argument in neither list is not copied into the body.
C2_AddDeviceBody ==
    AddDeviceValid =>
        LET a == call.args
            req == StatedRequired(a.device_type)
            opt == Range(optional_params(a.device_type)) \cap DOMAIN a.kwargs
            marker == StatedMarker(a.device_type)
            body == requests[1].payload
        IN  /\ OneRequest("POST", "devices")
            /\ Len(body) = Cardinality(Keys(body))
            /\ Keys(body) = {"hostname"} \cup req \cup opt \cup {marker.k}
            /\ Lookup(body, "hostname") = a.hostname
            /\ \A k \in req \cup opt : Lookup(body, k) = a.kwargs[k]
            /\ Lookup(body, marker.k) = marker.v
            /\ {"snmp_disable", "snmpver"} \cap Keys(body) = {marker.k}
            /\ \A k \in DOMAIN a.kwargs :
                   k \notin req \cup Range(optional_params(a.device_type))
                       => (k \notin Keys(body) \/ k = marker.k)

\* C2 witness: an snmpv2c call with community, an optional field and an
\* unknown keyword has issued its POST
C2_Witness ==
    /\ AddDeviceValid
    /\ call.args.device_type = "snmpv2c"
    /\ DOMAIN call.args.kwargs = {"community", "port", "extra"}
    /\ Len(requests) = 1
    /\ outcome.kind = "return"

\* C3: add_devicegroup goes through exactly when group_type is static with
\* devices set and rules unset, or dynamic with rules set and devices unset;
\* the POST body to devicegroups then holds the variant's field with the
\* argument's value and not the other field; every other call fails
\* validation and issues no HTTP request.
C3_DevicegroupExclusive ==
    call.op = "add_devicegroup" =>
        LET a == call.args
            static == a.group_type = "static" /\ a.devices.t # "none" /\ a.rules.t = "none"
            dynamic == a.group_type = "dynamic" /\ a.rules.t # "none" /\ a.devices.t = "none"
        IN  IF static
            THEN /\ OneRequest("POST", "devicegroups")
                 /\ HasKey(requests[1].payload, "devices")
                 /\ Lookup(requests[1].payload, "devices") = a.devices
                 /\ ~HasKey(requests[1].payload, "rules")
            ELSE IF dynamic
            THEN /\ OneRequest("POST", "devicegroups")
                 /\ HasKey(requests[1].payload, "rules")
                 /\ Lookup(requests[1].payload, "rules") = a.rules
                 /\ ~HasKey(requests[1].payload, "devices")
            ELSE ValidationFailure /\ NoRequest

\* C3 witness: a static group with both devices and rules set has been rejected
C3_Witness ==
    /\ call.op = "add_devicegroup"
    /\ call.args.group_type = "static"
    /\ call.args.devices.t # "none"
    /\ call.args.rules.t # "none"
    /\ ValidationFailure

StatedFilterTypes == {"all", "active", "ignored", "up", "down"}
StatedSearchTypes == {"os", "mac", "ipv4", "ipv6", "location", "location_id", "hostname",
                      "sysName", "display", "device_id", "type"}

\* C4: list_devices with a filter type fails validation without a request
\* when a query is given and otherwise issues one GET to devices with
\* type=device_type and no query value; with a search type it fails
\* validation without a request when no query is given and otherwise issues
\* one GET to devices with type=device_type and query=query.
C4_ListDevicesSplit ==
    (call.op = "list_devices"
        /\ call.args.device_type \in StatedFilterTypes \cup StatedSearchTypes) =>
        LET a == call.args
            filter == a.device_type \in StatedFilterTypes
            hasQuery == a.query.t # "none"
        IN  IF filter = hasQuery
            THEN ValidationFailure /\ NoRequest
            ELSE /\ OneRequest("GET", "devices")
                 /\ requests[1].payload =
                        <<Entry("type", PyStr(a.device_type)), Entry("query", a.query)>>
                 /\ filter => Lookup(requests[1].payload, "query") = PyNone

\* C4 witness: a search type with a query has issued its GET
C4_Witness ==
    /\ call.op = "list_devices"
    /\ call.args.device_type = "type"
    /\ call.args.query = PyStr("a")
    /\ Len(requests) = 1

\* C5: list_devices with a device_type in neither fixed set fails with a
\* validation error before any HTTP request, with or without a query.
C5_UnknownTypeRejected ==
    (call.op = "list_devices"
        /\ call.args.device_type \notin StatedFilterTypes \cup StatedSearchTypes)
        => (ValidationFailure /\ NoRequest)

StatedPortFields == {"ifAlias", "ifDescr", "ifName", "all"}

\* C6: search_ports with a field of the allowed set issues exactly one GET,
\* to ports/search/<search_string> when field is all and to
\* ports/search/<field>/<search_string> otherwise, with columns as the
\* columns query parameter, and returns the decoded response.
C6_SearchPortsRoutes ==
    (call.op = "search_ports" /\ call.args.field \in StatedPortFields) =>
        LET a == call.args
            route == IF a.field = "all" THEN "ports/search/" \o str(a.search_string)
                     ELSE "ports/search/" \o a.field \o "/" \o str(a.search_string)
        IN  /\ OneRequest("GET", route)
            /\ handed[1].arg = Given(<<Entry("columns", a.columns)>>)
            /\ KeySeq(requests[1].payload) = <<"columns">>
            /\ replies[1].fault = "" => outcome = Return(json(replies[1].resp))

\* C7: search_ports with a field outside the allowed set fails with a
\* validation error, whatever search_string and columns are, and issues no
\* HTTP request.
C7_SearchPortsRejects ==
    (call.op = "search_ports" /\ call.args.field \notin StatedPortFields)
        => (ValidationFailure /\ NoRequest)

\* C7 witness: a search with an unknown field and a list of columns has been rejected
C7_Witness ==
    /\ call.op = "search_ports"
    /\ call.args.field = "bogus"
    /\ call.args.columns.t = "list"
    /\ outcome.kind = "raise"

RECURSIVE StatedJoin(_)
\* the elements of a list joined with a comma
StatedJoin(l) == IF l = <<>> THEN ""
                 ELSE IF Len(l) = 1 THEN str(l[1])
                 ELSE str(l[1]) \o "," \o StatedJoin(Tail(l))

\* the mapping stated to go out for the mapping handed to the GET primitive
StatedParams(arg) ==
    IF ~arg.given THEN <<>>
    ELSE [i \in 1..Len(arg.d) |->
             IF arg.d[i].v.t = "list"
             THEN Entry(arg.d[i].k, PyStr(StatedJoin(arg.d[i].v.l)))
             ELSE arg.d[i]]

\* C8: for every parameter mapping handed to the GET primitive, the mapping
\* transmitted has the same keys in the same order, each list value replaced
\* by its elements joined with a comma, every other value unchanged; an
\* absent mapping is transmitted as the empty mapping.
C8_GetParamsNormalized ==
    (handed # <<>> /\ handed[1].verb = "GET") =>
        /\ Len(requests) = 1
        /\ requests[1].payload = StatedParams(handed[1].arg)

\* the except clause of each verb primitive
StatedSite(verb) ==
    CASE verb = "GET" -> "_get:41"
      [] verb = "PATCH" -> "_patch:54"
      [] verb = "POST" -> "_post:67"
      [] verb = "DELETE" -> "_delete:80"

\* C9: a call issues at most one HTTP request; when the transport signals a
\* fault on it, the call ends in a generic failure raised by that verb's
\* primitive whose message carries the fault's description.
C9_SingleAttempt ==
    /\ Len(requests) <= 1
    /\ Len(replies) = Len(requests)
    /\ \A i \in 1..Len(replies) :
           replies[i].fault # "" =>
               /\ outcome.kind = "raise"
               /\ outcome.exc = "Exception"
               /\ outcome.site = StatedSite(requests[i].verb)
               /\ EndsWith(outcome.msg, replies[i].fault)

\* C9 witness: a POST on which the transport timed out has ended in a failure
C9_Witness ==
    /\ Len(requests) = 1
    /\ requests[1].verb = "POST"
    /\ replies[1].fault = "Timeout"
    /\ outcome.kind = "raise"

\* the public methods whose body is only `...`
Stubs == {"edit_components", "delete_components", "delete_parents_from_host"}

\* C10: every call of a public operation (of one that has a body) ends in
\* exactly one of three ways: it returns the decoded response of the one
\* request it issued, it fails validation having issued no request, or it
\* fails with a transport failure after the transport faulted on its one
\* request.
C10_ThreeOutcomes ==
    (call.op # "" /\ call.op \notin Stubs) =>
        \/ /\ outcome.kind = "return"
           /\ Len(requests) = 1
           /\ replies[1].fault = ""
           /\ outcome.val = json(replies[1].resp)
        \/ ValidationFailure /\ requests = <<>>
        \/ /\ TransportFailure
           /\ Len(requests) = 1
           /\ replies[1].fault # ""

\* the base URL with a trailing slash appended only if it was missing,
\* followed by api/v0/
StatedUrl(base_url) ==
    IF EndsWith(base_url, "/") THEN base_url \o "api/v0/" ELSE base_url \o "/api/v0/"

\* C11: at every moment after construction, before, during and after any
\* sequence of calls (failed ones included), url is the normalised base URL
\* followed by api/v0/ (the same for u and u/), the header mapping is exactly
\* X-Auth-Token: credential, and the verification flag is the constructor's;
\* every request issued goes to url + route with that mapping and that flag.
C11_ConfigFixed ==
    /\ url = StatedUrl(ctor.base_url)
    /\ ctor.base_url \in {"http://nms", "http://nms/"} => url = "http://nms/api/v0/"
    /\ headers = <<Entry("X-Auth-Token", ctor.api_key)>>
    /\ verify = ctor.verify_ssl
    /\ \A i \in 1..Len(requests) :
           /\ requests[i].url = StatedUrl(ctor.base_url) \o handed[1].route
           /\ requests[i].headers = <<Entry("X-Auth-Token", ctor.api_key)>>
           /\ requests[i].verify = ctor.verify_ssl

\* C11 witness: a client built from a base URL without trailing slash has
\* had a call end in a transport failure
C11_Witness ==
    /\ ctor.base_url = "http://nms"
    /\ ctor.api_key = "k2"
    /\ call.op = "del_device"
    /\ Len(requests) = 1
    /\ TransportFailure

\* the optional keyword arguments the docstring of add_device lists
DocumentedOptional(v) ==
    IF v = "icmp" THEN {"display", "os", "sysName", "hardware"}
    ELSE {"display", "port", "transport"}

\* C12: an add_device call that passes validation and supplies an optional
\* keyword argument documented for its variant (display, os, sysName,
\* hardware for icmp; display, port, transport for the SNMP variants) issues
\* a POST whose body holds that key with the caller's value.
C12_DocumentedOptionalSent ==
    AddDeviceValid =>
        \A k \in DocumentedOptional(call.args.device_type) \cap DOMAIN call.args.kwargs :
            /\ Len(requests) = 1
            /\ requests[1].verb = "POST"
            /\ HasKey(requests[1].payload, k)
            /\ Lookup(requests[1].payload, k) = call.args.kwargs[k]

\* the values Python takes as false among the coordinates a caller passes
StatedFalsy == {PyNone, PyInt(0), PyStr("")}

\* what add_location is stated to send for a coordinate
StatedCoordinate(v) == IF v \in StatedFalsy THEN PyStr("None") ELSE v

\* the body edit_location is stated to send
StatedEdit(latitude, longitude) ==
    (IF latitude # PyNone THEN <<Entry("lat", latitude)>> ELSE <<>>)
    \o (IF longitude # PyNone THEN <<Entry("lng", longitude)>> ELSE <<>>)

\* C13: add_location always issues one POST to locations whose body has
\* exactly the keys location, lat, lng, fixed_coordinates; lat (lng) is the
\* supplied latitude (longitude) when that is truthy and the string "None"
\* otherwise, so 0 is sent as "None" like an omitted coordinate; edit_location
\* sends lat (lng) with the supplied value whenever it is not None, 0
\* included, and omits the key when it is None.
C13_LocationCoordinates ==
    /\ call.op = "add_location" =>
           LET a == call.args
               body == requests[1].payload
           IN  /\ OneRequest("POST", "locations")
               /\ KeySeq(body) = <<"location", "lat", "lng", "fixed_coordinates">>
               /\ Lookup(body, "location") = a.location_name
               /\ Lookup(body, "lat") = StatedCoordinate(a.latitude)
               /\ Lookup(body, "lng") = StatedCoordinate(a.longitude)
               /\ Lookup(body, "fixed_coordinates") = a.fixed_coordinates
    /\ call.op = "edit_location" =>
           /\ OneRequest("PATCH", "locations/" \o str(call.args.location_name))
           /\ requests[1].payload = StatedEdit(call.args.latitude, call.args.longitude)

\* C13 witness: add_location with latitude 0 and a real longitude has sent
\* lat as "None"
C13_Witness ==
    /\ call.op = "add_location"
    /\ call.args.latitude = PyInt(0)
    /\ call.args.longitude = PyInt(1)
    /\ Len(requests) = 1
    /\ Lookup(requests[1].payload, "lat") = PyStr("None")

=============================================================================
